---- MODULE Spec2Model ----
(***************************************************************************)
(* Model of the HTTP server in server/src/main.rs: the request handlers,   *)
(* the shared AppState (bb8 connection pool + Mutex<Option<Vec<Batch>>>)   *)
(* and the interleaving of concurrently running handler tasks.             *)
(*                                                                         *)
(* Every request is one tokio task.  A task's position in its handler is   *)
(* pc[r]; a step of the model runs a handler from one .await (or blocking  *)
(* call) to the next.  Requests are numbered in arrival order.             *)
(***************************************************************************)
EXTENDS Naturals, Sequences, FiniteSets

\* ------------------------------------------------------------------ bounds
\* Number of requests that arrive during one run of the server.
NumReq == 2

\* ------------------------------------------------------------- constants
\* bb8::Pool::builder().max_size(8)
max_size == 8

\* ------------------------------------------------------------ data values
\* Option<Vec<Batch>>: None and Some(v).
None == [some |-> FALSE, val |-> <<>>]
Some(v) == [some |-> TRUE, val |-> v]
\* serde_json::Value::Null
Null == "null"
\* A NULL column of a result row.
SqlNull == "NULL"

\* enum ProgramState
ProgramState == {"Initiated", "Processing", "Complete", "Cancelled"}

\* The route table of main(): one kind of request per handler.
Handlers == {"get_machines", "get_batches", "get_batches_for_program",
             "get_programs", "get_nest", "get_feedback", "update_program"}

\* Path(program) values the clients send.  P1 is nested on sheet S1, P2 on
\* sheet S3 (a sheet no batch is cut from), P3 is not in the database.
Programs == {"P1", "P2", "P3"}
\* Path(machine) value the clients send.
Machines == {"M1"}
\* ProgramUpdateParams.batch sent with a state change.
BatchParam == "B1"

\* struct Batch: sheet_name is the join key, id stands for the rest of the
\* batch's data.
Batch(i, s) == [id |-> i, sheet_name |-> s]

\* What Batch::get_batches() can return on success: the batch source is
\* external and may hold different data at different times.
SourceData == { << Batch(1, "S1"), Batch(2, "S1"), Batch(3, "S2") >>,
                << Batch(3, "S2"), Batch(1, "S1") >> }

\* Result of Batch::get_batches(): Ok(Vec<Batch>) or Err(SourceUnavailable).
BatchGetBatches ==
    { [ok |-> TRUE, val |-> d, err |-> "-"] : d \in SourceData }
      \cup { [ok |-> FALSE, val |-> <<>>, err |-> "SourceUnavailable"] }

\* A task local that holds the result of Nest::get: not yet called, Ok(nest)
\* or Err(e).  Of struct Nest the handlers read nest.sheet.sheet_name.
NoNest == [state |-> "none", err |-> "-", program |-> "-", sheet_name |-> "-"]
NestOk(p, s) == [state |-> "ok", err |-> "-", program |-> p, sheet_name |-> s]
NestErr(e) == [state |-> "err", err |-> e, program |-> "-", sheet_name |-> "-"]

\* Result of Nest::get(&mut conn, &program): the row of the program, NotFound
\* when there is none, DatabaseError when the query fails.
NestGet(p) ==
    { IF p = "P1" THEN NestOk(p, "S1")
      ELSE IF p = "P2" THEN NestOk(p, "S3")
      ELSE NestErr("NotFound") }
    \cup { NestErr("DatabaseError") }

\* Result of conn.execute(INSERT INTO TransAct ...): Ok(rows affected) or
\* Err(e).
ExecuteResult == { [ok |-> TRUE,  err |-> "-"],
                   [ok |-> FALSE, err |-> "DatabaseError"] }

\* A task local that holds the result of a listing query: not yet run.
NoQuery == [ok |-> FALSE, err |-> "none", rows |-> <<>>]

\* Result of the machines query followed by into_first_result(): the query
\* fails, the decoding of its result fails, or the rows (one column,
\* MachineName, possibly NULL).
MachinesQuery ==
    { [ok |-> FALSE, err |-> "query", rows |-> <<>>],
      [ok |-> FALSE, err |-> "decode", rows |-> <<>>],
      [ok |-> TRUE, err |-> "-", rows |-> <<>>],
      [ok |-> TRUE, err |-> "-", rows |-> << "M1", SqlNull >>] }

\* A row of the programs query.
ProgramRow(p, n, t) == [ProgramName |-> p, Repeats |-> n, CuttingTime |-> t]

\* Result of the programs query followed by into_first_result().
ProgramsQuery ==
    { [ok |-> FALSE, err |-> "query", rows |-> <<>>],
      [ok |-> FALSE, err |-> "decode", rows |-> <<>>],
      [ok |-> TRUE, err |-> "-", rows |-> <<>>],
      [ok |-> TRUE, err |-> "-", rows |-> << ProgramRow("P1", "2", "90.5") >>],
      [ok |-> TRUE, err |-> "-", rows |-> << ProgramRow("P1", "2", SqlNull) >>] }

\* Result of export_feedback(pool): Ok(entries) or Err(e).
ExportFeedback ==
    { [ok |-> TRUE, val |-> << "F1" >>, err |-> "-"],
      [ok |-> FALSE, val |-> <<>>, err |-> "DatabaseError"] }

\* ------------------------------------------------------------- responses
\* What the client gets.  kind tells how to read the body: "json" (a
\* sequence), "value" (one object), "null", "error" (the Err(e) of a handler
\* that returns Result), "none" (no response: still running, or panicked).
NoResponse == [kind |-> "none", status |-> "-", body |-> "-"]
\* (StatusCode::OK, Json(list))
OkList(list) == [kind |-> "json", status |-> "200 OK", body |-> list]
\* (StatusCode::OK, Json(value))
OkValue(v) == [kind |-> "value", status |-> "200 OK", body |-> v]
\* (StatusCode::CREATED, Json(Value::Null))
Created == [kind |-> "null", status |-> "201 Created", body |-> Null]
\* (StatusCode::INTERNAL_SERVER_ERROR, Json(Value::Null))
InternalServerError ==
    [kind |-> "null", status |-> "500 Internal Server Error", body |-> Null]
\* Err(e) returned through `?`
ErrResponse(e) == [kind |-> "error", status |-> "Err", body |-> e]

\* A log record: the level of the log:: macro and its message.
LogRec(level, msg) == [level |-> level, msg |-> msg]

\* ----------------------------------------------------------------- state
VARIABLES
    kind,      \* kind[r]: the handler the router dispatched request r to
    arg,       \* arg[r]: Path(program) / Path(machine), "-" when none
    pstate,    \* pstate[r]: params.state of an update_program request
    pc,        \* pc[r]: where the task of r is in its handler
    fetch,     \* fetch[r]: r's call of Batch::get_batches():
               \*   "no" | "inflight" | "ok" | "err"
    seen,      \* seen[r]: what r read with batches.as_ref().unwrap()
    nest,      \* nest[r]: the result of r's Nest::get
    writes,    \* writes[r]: the results of the conn.execute calls r has made
    query,     \* query[r]: the result of r's listing query (get_machines,
               \*   get_programs)
    resp,      \* resp[r]: the response of r
    logs,      \* logs[r]: the log records r has emitted
    batches,   \* AppState.batches: None or Some(the cached Vec<Batch>)
    locked,    \* the tasks holding a MutexGuard of AppState.batches
    conns      \* the tasks holding a PooledConnection of AppState.db

vars == <<kind, arg, pstate, pc, fetch, seen, nest, writes, query, resp, logs,
          batches, locked, conns>>

\* The requests that have arrived.
Req == 1 .. Len(pc)

\* AppState::new(): an empty cache, an unlocked mutex, a full pool; no
\* request has arrived.
Init ==
    /\ kind = <<>> /\ arg = <<>> /\ pstate = <<>> /\ pc = <<>>
    /\ fetch = <<>> /\ seen = <<>> /\ nest = <<>> /\ writes = <<>>
    /\ query = <<>>
    /\ resp = <<>> /\ logs = <<>>
    /\ batches = None
    /\ locked = {}
    /\ conns = {}

\* ----------------------------------------------------- handler helpers
\* A lock that does not exclude: lock().await completes at once.
CanLockAlways(l) == TRUE

\* Mutex::lock().await completes only when no guard is alive.
CanLock(l) == l = {}

\* A cache that is loaded on every read.
NeedsLoadAlways(b) == TRUE

\* `if let None = *batches`: the cache is loaded only when it is empty.
NeedsLoad(b) == ~b.some

\* A guard dropped before the database is used.
LockedAtGetOwnedReleased(l, r) == l \ {r}

\* The MutexGuard `batches` of get_batches_for_program is a local of the
\* whole function body: it is still alive at state.db.get_owned().await and
\* at Nest::get(..).await.
LockedAtGetOwned(l, r) == l

\* A guard that outlives its handler.
UnlockedLeak(l, r) == l

\* A MutexGuard is dropped when its handler returns or unwinds.
Unlocked(l, r) == l \ {r}

\* A pool without a limit.
CanCheckOutAlways(c) == TRUE

\* A pool that hands out connections only while the cache lock is free.
CanCheckOutUnlocked(c) == Cardinality(c) < max_size /\ locked = {}

\* bb8 hands out a connection only while fewer than max_size are checked out.
CanCheckOut(c) == Cardinality(c) < max_size

\* A connection that never goes back to the pool.
CheckedInLeak(c, r) == c

\* A PooledConnection goes back to the pool when its handler returns or
\* unwinds.
CheckedIn(c, r) == c \ {r}

\* A filter that collects the matches in reverse order.
RECURSIVE FilterBatchesReversed(_, _)
FilterBatchesReversed(bs, sheet) ==
    IF bs = <<>> THEN <<>>
    ELSE IF Head(bs).sheet_name = sheet
         THEN FilterBatchesReversed(Tail(bs), sheet) \o <<Head(bs)>>
         ELSE FilterBatchesReversed(Tail(bs), sheet)

\* batches.iter().filter(|bat| bat.sheet_name == sheet).map(clone).collect()
RECURSIVE FilterBatches(_, _)
FilterBatches(bs, sheet) ==
    IF bs = <<>> THEN <<>>
    ELSE IF Head(bs).sheet_name = sheet
         THEN <<Head(bs)>> \o FilterBatches(Tail(bs), sheet)
         ELSE FilterBatches(Tail(bs), sheet)

\* A join that answers a failed nest lookup with an empty list.
JoinResponseSwallow(n, bs) ==
    IF n.state = "ok" THEN OkList(FilterBatches(bs, n.sheet_name))
    ELSE OkList(<<>>)

\* What get_batches_for_program returns once Nest::get has answered n and
\* the cache holds the batches bs: `?` returns Err(e), otherwise the filtered
\* batches.
JoinResponse(n, bs) ==
    IF n.state = "ok" THEN OkList(FilterBatches(bs, n.sheet_name))
    ELSE ErrResponse(n.err)

\* What get_nest returns once Nest::get has answered n.
NestResponse(n) ==
    IF n.state = "ok" THEN OkValue(n) ELSE ErrResponse(n.err)

\* rows.iter().map(|row| row.get(0)).map(|val| String::from(val.unwrap_or("")))
RECURSIVE MachineNames(_)
MachineNames(rows) ==
    IF rows = <<>> THEN <<>>
    ELSE << IF Head(rows) = SqlNull THEN "" ELSE Head(rows) >>
           \o MachineNames(Tail(rows))

\* The match on `results` of get_machines.
MachinesResponse(q) ==
    IF q.ok THEN OkList(MachineNames(q.rows)) ELSE InternalServerError

\* row.get(..).unwrap() of get_programs panics on a NULL column.
RowPanics(row) ==
    \/ row.ProgramName = SqlNull
    \/ row.Repeats = SqlNull
    \/ row.CuttingTime = SqlNull

\* json!({"program": .., "repeats": .., "cuttingTime": ..}) of each row.
RECURSIVE ProgramsJson(_)
ProgramsJson(rows) ==
    IF rows = <<>> THEN <<>>
    ELSE << [program |-> Head(rows).ProgramName,
             repeats |-> Head(rows).Repeats,
             cuttingTime |-> Head(rows).CuttingTime] >>
           \o ProgramsJson(Tail(rows))

\* The match on `results` of get_programs (when no row panics).
ProgramsResponse(q) ==
    IF q.ok THEN OkList(ProgramsJson(q.rows)) ELSE InternalServerError

\* A failure logged with the message alone.
WriteFailureLogsMessageOnly(e) ==
    << LogRec("ERROR", "Failed to push program update to SimTrans") >>

\* The two log::error! calls of `if let Err(e) = update`.
WriteFailureLogs(e) ==
    << LogRec("ERROR", "Failed to push program update to SimTrans"),
       LogRec("ERROR", e) >>

\* A match whose Initiated arm alone stays away from the database.
GoesToDatabaseUnlessInitiated(s) == s # "Initiated"

\* The arm of `match params.state` that uses the database.
GoesToDatabase(s) == s = "Complete"

\* What the arm of `match params.state` logs first.
StateLog(s) ==
    IF s = "Initiated" THEN LogRec("TRACE", "Program initiated")
    ELSE IF s = "Processing"
         THEN LogRec("TRACE", "Program is moved to processing with batch")
    ELSE IF s = "Complete" THEN LogRec("INFO", "Program complete with batch")
    ELSE LogRec("TRACE", "Program cancelled")

\* The last expression of update_program.
UpdateResponse == Created

\* The log::debug! at the top of a handler (update_program has none).
EntryLog(k) ==
    IF k = "update_program" THEN <<>>
    ELSE << LogRec("DEBUG", k) >>

\* Handlers that all ask for a connection before anything else.
EntryPcConnectionFirst(k) ==
    IF k = "get_batches" THEN "lock"
    ELSE IF k = "update_program" THEN "match"
    ELSE IF k = "get_feedback" THEN "export"
    ELSE "get_owned"

\* The first await of each handler.
EntryPc(k) ==
    IF k \in {"get_batches", "get_batches_for_program"} THEN "lock"
    ELSE IF k = "update_program" THEN "match"
    ELSE IF k = "get_feedback" THEN "export"
    ELSE "get_owned"

\* The path parameter each route extracts.
Args(k) ==
    IF k \in {"get_batches_for_program", "get_nest", "update_program"}
    THEN Programs
    ELSE IF k = "get_programs" THEN Machines
    ELSE {"-"}

\* The Json(params).state each route extracts.
States(k) == IF k = "update_program" THEN ProgramState ELSE {"-"}

\* --------------------------------------------------------------- actions
\* A handler that starts over instead of returning an Err.
ReturnRetrying(r, x) ==
    /\ IF x.kind = "error"
       THEN pc' = [pc EXCEPT ![r] = EntryPc(kind[r])] /\ resp' = resp
       ELSE pc' = [pc EXCEPT ![r] = "done"] /\ resp' = [resp EXCEPT ![r] = x]
    /\ locked' = Unlocked(locked, r)
    /\ conns' = CheckedIn(conns, r)

\* A handler that keeps its guard and its connection when it returns an Err.
ReturnHoldingOnErr(r, x) ==
    /\ pc' = [pc EXCEPT ![r] = "done"]
    /\ resp' = [resp EXCEPT ![r] = x]
    /\ locked' = IF x.kind = "error" THEN locked ELSE Unlocked(locked, r)
    /\ conns' = IF x.kind = "error" THEN conns ELSE CheckedIn(conns, r)

\* A handler returns x: its guards and connections are dropped.
Return(r, x) ==
    /\ pc' = [pc EXCEPT ![r] = "done"]
    /\ resp' = [resp EXCEPT ![r] = x]
    /\ locked' = Unlocked(locked, r)
    /\ conns' = CheckedIn(conns, r)

\* A handler panics (an unwrap() of Err or None): the task unwinds, dropping
\* its guards and connections, and no response is sent.
Panic(r) ==
    /\ pc' = [pc EXCEPT ![r] = "panicked"]
    /\ resp' = resp
    /\ locked' = Unlocked(locked, r)
    /\ conns' = CheckedIn(conns, r)

\* The router starts the handler k with the path parameter a and the state
\* s, up to the handler's first await.
Enter(k, a, s) ==
    /\ kind' = Append(kind, k)
    /\ arg' = Append(arg, a)
    /\ pstate' = Append(pstate, s)
    /\ pc' = Append(pc, EntryPc(k))
    /\ fetch' = Append(fetch, "no")
    /\ seen' = Append(seen, None)
    /\ nest' = Append(nest, NoNest)
    /\ writes' = Append(writes, <<>>)
    /\ query' = Append(query, NoQuery)
    /\ resp' = Append(resp, NoResponse)
    /\ logs' = Append(logs, EntryLog(k))
    /\ UNCHANGED <<batches, locked, conns>>

\* A request arrives.
Start(k, a, s) ==
    /\ Len(pc) < NumReq
    /\ Enter(k, a, s)

\* get_batches: lock().await completes and the cache is populated; the
\* handler clones it and returns.
GetBatchesHit(r) ==
    /\ kind[r] = "get_batches" /\ pc[r] = "lock"
    /\ CanLock(locked)
    /\ ~NeedsLoad(batches)
    /\ seen' = [seen EXCEPT ![r] = batches]
    /\ pc' = [pc EXCEPT ![r] = "done"]
    /\ resp' = [resp EXCEPT ![r] = OkList(batches.val)]
    /\ locked' = Unlocked(locked \cup {r}, r)
    /\ UNCHANGED <<kind, arg, pstate, query, fetch, nest, writes, logs, batches, conns>>

\* get_batches_for_program: lock().await completes and the cache is
\* populated; the handler goes on to state.db.get_owned().await.
JoinHit(r) ==
    /\ kind[r] = "get_batches_for_program" /\ pc[r] = "lock"
    /\ CanLock(locked)
    /\ ~NeedsLoad(batches)
    /\ pc' = [pc EXCEPT ![r] = "get_owned"]
    /\ locked' = LockedAtGetOwned(locked \cup {r}, r)
    /\ UNCHANGED <<kind, arg, pstate, query, fetch, seen, nest, writes, resp, logs,
                   batches, conns>>

\* Either cache handler: lock().await completes, the cache is empty, and
\* the handler calls Batch::get_batches().
LoadStart(r) ==
    /\ kind[r] \in {"get_batches", "get_batches_for_program"}
    /\ pc[r] = "lock"
    /\ CanLock(locked)
    /\ NeedsLoad(batches)
    /\ locked' = locked \cup {r}
    /\ pc' = [pc EXCEPT ![r] = "fetching"]
    /\ fetch' = [fetch EXCEPT ![r] = "inflight"]
    /\ UNCHANGED <<kind, arg, pstate, query, seen, nest, writes, resp, logs, batches,
                   conns>>

\* Batch::get_batches() returns Ok(d): *batches = Some(d).  get_batches
\* returns a clone of it; get_batches_for_program goes on to get_owned().
LoadOk(r, d) ==
    /\ pc[r] = "fetching"
    /\ [ok |-> TRUE, val |-> d, err |-> "-"] \in BatchGetBatches
    /\ batches' = Some(d)
    /\ fetch' = [fetch EXCEPT ![r] = "ok"]
    /\ IF kind[r] = "get_batches"
       THEN /\ seen' = [seen EXCEPT ![r] = batches']
            /\ pc' = [pc EXCEPT ![r] = "done"]
            /\ resp' = [resp EXCEPT ![r] = OkList(batches'.val)]
            /\ locked' = Unlocked(locked, r)
       ELSE /\ pc' = [pc EXCEPT ![r] = "get_owned"]
            /\ locked' = LockedAtGetOwned(locked, r)
            /\ UNCHANGED <<seen, resp>>
    /\ UNCHANGED <<kind, arg, pstate, query, nest, writes, logs, conns>>

\* Batch::get_batches() returns Err(e): `?` returns it; the cache is not
\* assigned.
LoadErr(r, e) ==
    /\ pc[r] = "fetching"
    /\ [ok |-> FALSE, val |-> <<>>, err |-> e] \in BatchGetBatches
    /\ fetch' = [fetch EXCEPT ![r] = "err"]
    /\ Return(r, ErrResponse(e))
    /\ UNCHANGED <<kind, arg, pstate, query, seen, nest, writes, logs, batches>>

\* state.db.get_owned().await returns Ok(conn).
GetOwned(r) ==
    /\ pc[r] = "get_owned"
    /\ CanCheckOut(conns)
    /\ conns' = conns \cup {r}
    /\ pc' = [pc EXCEPT ![r] = "query"]
    /\ UNCHANGED <<kind, arg, pstate, query, fetch, seen, nest, writes, resp, logs,
                   batches, locked>>

\* state.db.get_owned().await returns Err (the pool timed out or could not
\* connect): unwrap() panics.
GetOwnedErr(r) ==
    /\ pc[r] = "get_owned"
    /\ Panic(r)
    /\ UNCHANGED <<kind, arg, pstate, query, fetch, seen, nest, writes, logs, batches>>

\* get_batches_for_program: Nest::get answers n; the handler filters the
\* cached batches, or returns the error.
JoinQuery(r, n) ==
    /\ kind[r] = "get_batches_for_program" /\ pc[r] = "query"
    /\ n \in NestGet(arg[r])
    /\ nest' = [nest EXCEPT ![r] = n]
    /\ seen' = [seen EXCEPT ![r] = IF n.state = "ok" THEN batches ELSE @]
    /\ Return(r, JoinResponse(n, batches.val))
    /\ UNCHANGED <<kind, arg, pstate, query, fetch, writes, logs, batches>>

\* get_nest: Nest::get answers n.
NestQuery(r, n) ==
    /\ kind[r] = "get_nest" /\ pc[r] = "query"
    /\ n \in NestGet(arg[r])
    /\ nest' = [nest EXCEPT ![r] = n]
    /\ logs' = [logs EXCEPT ![r] =
                  IF n.state = "ok" THEN Append(@, LogRec("DEBUG", "Nest found"))
                  ELSE @]
    /\ Return(r, NestResponse(n))
    /\ UNCHANGED <<kind, arg, pstate, query, fetch, seen, writes, batches>>

\* The Err of a listing query itself, before any result set.
QueryErr == [ok |-> FALSE, err |-> "query", rows |-> <<>>]

\* get_machines: conn.simple_query(..).await answers.  Ok(stream) takes the
\* handler to stream.into_first_result().await, Err(_) returns the 500.
MachinesQuerySent(r, ok) ==
    /\ kind[r] = "get_machines" /\ pc[r] = "query"
    /\ IF ok
       THEN /\ pc' = [pc EXCEPT ![r] = "result"]
            /\ UNCHANGED <<query, resp, locked, conns>>
       ELSE /\ query' = [query EXCEPT ![r] = QueryErr]
            /\ Return(r, MachinesResponse(QueryErr))
    /\ UNCHANGED <<kind, arg, pstate, fetch, seen, nest, writes, logs, batches>>

\* get_machines: stream.into_first_result().await answers q.
MachinesQueryDone(r, q) ==
    /\ kind[r] = "get_machines" /\ pc[r] = "result"
    /\ q \in MachinesQuery /\ q # QueryErr
    /\ query' = [query EXCEPT ![r] = q]
    /\ Return(r, MachinesResponse(q))
    /\ UNCHANGED <<kind, arg, pstate, fetch, seen, nest, writes, logs, batches>>

\* get_programs: conn.query(..).await answers.  Ok(stream) takes the handler
\* to stream.into_first_result().await, Err(_) returns the 500.
ProgramsQuerySent(r, ok) ==
    /\ kind[r] = "get_programs" /\ pc[r] = "query"
    /\ IF ok
       THEN /\ pc' = [pc EXCEPT ![r] = "result"]
            /\ UNCHANGED <<query, resp, locked, conns>>
       ELSE /\ query' = [query EXCEPT ![r] = QueryErr]
            /\ Return(r, ProgramsResponse(QueryErr))
    /\ UNCHANGED <<kind, arg, pstate, fetch, seen, nest, writes, logs, batches>>

\* get_programs: stream.into_first_result().await answers q, and the rows
\* are decoded.
ProgramsQueryDone(r, q) ==
    /\ kind[r] = "get_programs" /\ pc[r] = "result"
    /\ q \in ProgramsQuery /\ q # QueryErr
    /\ query' = [query EXCEPT ![r] = q]
    /\ IF q.ok /\ \E i \in 1 .. Len(q.rows) : RowPanics(q.rows[i])
       THEN Panic(r)
       ELSE Return(r, ProgramsResponse(q))
    /\ UNCHANGED <<kind, arg, pstate, fetch, seen, nest, writes, logs, batches>>

\* get_feedback: export_feedback(pool).await answers f.
Feedback(r, f) ==
    /\ kind[r] = "get_feedback" /\ pc[r] = "export"
    /\ f \in ExportFeedback
    /\ Return(r, IF f.ok THEN OkList(f.val) ELSE ErrResponse(f.err))
    /\ UNCHANGED <<kind, arg, pstate, query, fetch, seen, nest, writes, logs, batches>>

\* update_program: `match params.state`.  Complete goes on to get_owned();
\* the other arms log and the handler returns.
Match(r) ==
    /\ kind[r] = "update_program" /\ pc[r] = "match"
    /\ logs' = [logs EXCEPT ![r] = Append(@, StateLog(pstate[r]))]
    /\ IF GoesToDatabase(pstate[r])
       THEN /\ pc' = [pc EXCEPT ![r] = "get_owned"]
            /\ UNCHANGED <<resp, locked, conns>>
       ELSE Return(r, UpdateResponse)
    /\ UNCHANGED <<kind, arg, pstate, query, fetch, seen, nest, writes, batches>>

\* update_program, Complete: conn.execute(INSERT ..).await answers u; an
\* error is logged; the handler returns.
Execute(r, u) ==
    /\ kind[r] = "update_program" /\ pc[r] = "query"
    /\ u \in ExecuteResult
    /\ writes' = [writes EXCEPT ![r] = Append(@, u)]
    /\ logs' = [logs EXCEPT ![r] = IF u.ok THEN @ ELSE @ \o WriteFailureLogs(u.err)]
    /\ Return(r, UpdateResponse)
    /\ UNCHANGED <<kind, arg, pstate, query, fetch, seen, nest, batches>>

Next ==
    \/ \E k \in Handlers : \E a \in Args(k) : \E s \in States(k) : Start(k, a, s)
    \/ \E r \in Req : GetBatchesHit(r)
    \/ \E r \in Req : JoinHit(r)
    \/ \E r \in Req : LoadStart(r)
    \/ \E r \in Req : \E d \in SourceData : LoadOk(r, d)
    \/ \E r \in Req : LoadErr(r, "SourceUnavailable")
    \/ \E r \in Req : GetOwned(r)
    \/ \E r \in Req : GetOwnedErr(r)
    \/ \E r \in Req : \E n \in NestGet(arg[r]) : JoinQuery(r, n)
    \/ \E r \in Req : \E n \in NestGet(arg[r]) : NestQuery(r, n)
    \/ \E r \in Req : \E ok \in BOOLEAN : MachinesQuerySent(r, ok)
    \/ \E r \in Req : \E q \in MachinesQuery : MachinesQueryDone(r, q)
    \/ \E r \in Req : \E ok \in BOOLEAN : ProgramsQuerySent(r, ok)
    \/ \E r \in Req : \E q \in ProgramsQuery : ProgramsQueryDone(r, q)
    \/ \E r \in Req : \E f \in ExportFeedback : Feedback(r, f)
    \/ \E r \in Req : Match(r)
    \/ \E r \in Req : \E u \in ExecuteResult : Execute(r, u)

Spec == Init /\ [][Next]_vars

\* ------------------------------------------------- exhausted pool workload
\* Number of requests that arrive while the pool is exhausted.
PoolExtra == 2

\* The handlers and the program of the requests of this workload.
PoolHandlers == {"get_batches_for_program", "get_nest"}
PoolProgram == "P1"

\* The server after max_size get_nest requests have arrived and each has
\* been handed a connection: every connection of the pool is checked out and
\* every one of these handlers awaits its Nest::get.
InitPool ==
    /\ kind = [i \in 1 .. max_size |-> "get_nest"]
    /\ arg = [i \in 1 .. max_size |-> PoolProgram]
    /\ pstate = [i \in 1 .. max_size |-> "-"]
    /\ pc = [i \in 1 .. max_size |-> "query"]
    /\ fetch = [i \in 1 .. max_size |-> "no"]
    /\ seen = [i \in 1 .. max_size |-> None]
    /\ nest = [i \in 1 .. max_size |-> NoNest]
    /\ writes = [i \in 1 .. max_size |-> <<>>]
    /\ query = [i \in 1 .. max_size |-> NoQuery]
    /\ resp = [i \in 1 .. max_size |-> NoResponse]
    /\ logs = [i \in 1 .. max_size |-> EntryLog("get_nest")]
    /\ batches = None
    /\ locked = {}
    /\ conns = 1 .. max_size

\* A further request arrives.
Arrive(k, a, s) ==
    /\ Len(pc) < max_size + PoolExtra
    /\ Enter(k, a, s)

\* The steps of this workload: the handlers run as above; the database
\* answers every nest query with the program's row.
NextPool ==
    \/ \E k \in PoolHandlers : Arrive(k, PoolProgram, "-")
    \/ \E r \in Req : JoinHit(r)
    \/ \E r \in Req : LoadStart(r)
    \/ \E r \in Req : \E d \in SourceData : LoadOk(r, d)
    \/ \E r \in Req : LoadErr(r, "SourceUnavailable")
    \/ \E r \in Req : GetOwned(r)
    \/ \E r \in Req : GetOwnedErr(r)
    \/ \E r \in Req : \E n \in NestGet(arg[r]) : n.state = "ok" /\ JoinQuery(r, n)
    \/ \E r \in Req : \E n \in NestGet(arg[r]) : n.state = "ok" /\ NestQuery(r, n)

SpecPool == InitPool /\ [][NextPool]_vars

\* ------------------------------------------------------------ vocabulary
\* The requests served by the two handlers that read the batch cache.
CacheReaders ==
    {r \in Req : kind[r] \in {"get_batches", "get_batches_for_program"}}

\* The handler of r has returned or panicked.
Finished(r) == pc[r] \in {"done", "panicked"}

\* The requests that have called Batch::get_batches(), by outcome.
Fetchers == {r \in Req : fetch[r] # "no"}
FetchingNow == {r \in Req : fetch[r] = "inflight"}
FetchedOk == {r \in Req : fetch[r] = "ok"}
FetchedErr == {r \in Req : fetch[r] = "err"}

\* r is between its lock().await and the drop of its guard, by its position
\* in the code: get_batches holds the guard across the load (the read and the
\* return follow in the same step); get_batches_for_program holds it across
\* the load, get_owned() and Nest::get.
InCriticalSection(r) ==
    \/ kind[r] = "get_batches" /\ pc[r] = "fetching"
    \/ kind[r] = "get_batches_for_program"
         /\ pc[r] \in {"fetching", "get_owned", "query"}

\* ------------------------------------------------------------------- C1
\* C1 as stated: once the cache readers have finished, Batch::get_batches
\* has been invoked exactly once in total, and the readers that observed a
\* sequence observed the same one.
C1_ExactlyOneInvocation ==
    (CacheReaders # {} /\ \A r \in CacheReaders : Finished(r))
        => /\ Cardinality(Fetchers) = 1
           /\ \A r1, r2 \in CacheReaders :
                 (seen[r1].some /\ seen[r2].some) => seen[r1] = seen[r2]

\* C1 amended: invocations of Batch::get_batches never overlap, at most one
\* of them succeeds and none is running or starts once one has succeeded
\* (every other invocation is a failed one), it is invoked exactly once when
\* no invocation fails, and every caller that reads the cache observes the
\* one sequence that the successful invocation returned.
C1_SingletonFetch ==
    /\ Cardinality(FetchedOk) <= 1
    /\ Cardinality(FetchingNow) <= 1
    /\ batches.some => (FetchingNow = {} /\ Cardinality(FetchedOk) = 1)
    /\ Cardinality(Fetchers) <= 1 + Cardinality(FetchedErr)
    /\ (CacheReaders # {} /\ (\A r \in CacheReaders : Finished(r))
          /\ FetchedErr = {})
         => Cardinality(Fetchers) = 1
    /\ \A r \in Req : seen[r].some => (batches.some /\ seen[r] = batches)

\* Two cache reads of different handlers were in flight while the cache was
\* empty, one of them fetched, and both observed the same sequence.
C1_Witness ==
    \E r1, r2 \in Req :
        /\ kind[r1] = "get_batches" /\ kind[r2] = "get_batches_for_program"
        /\ Cardinality(Fetchers) = 1
        /\ seen[r1].some /\ seen[r2].some /\ seen[r1] = seen[r2]
        /\ Len(seen[r1].val) = 3

\* ------------------------------------------------------------------- C2
\* C2: once the cache holds Some(sequence), no step changes it.
C2_CacheNeverChanges == [][batches.some => batches' = batches]_vars

\* The cache was populated by one request and later read by another.
C2_Witness ==
    \E r1, r2 \in Req :
        /\ r1 # r2
        /\ fetch[r1] = "ok" /\ fetch[r2] = "no"
        /\ seen[r2].some /\ seen[r2] = batches

\* ------------------------------------------------------------------- C3
\* C3: at most one handler is between taking and dropping the cache lock,
\* and at most one invocation of Batch::get_batches is in progress.
C3_MutualExclusion ==
    /\ Cardinality({r \in Req : InCriticalSection(r)}) <= 1
    /\ Cardinality(FetchingNow) <= 1
    /\ \A r \in Req : InCriticalSection(r) => r \in locked

\* One handler is fetching while a request of the other handler waits for
\* the lock.
C3_Witness ==
    \E r1, r2 \in Req :
        /\ kind[r1] = "get_batches" /\ pc[r1] = "fetching"
        /\ kind[r2] = "get_batches_for_program" /\ pc[r2] = "lock"

\* ------------------------------------------------------------------- C4
\* The requests served by update_program.
Updates == {r \in Req : kind[r] = "update_program"}

\* C4 as stated: every execution of update_program ends by returning the
\* success acknowledgment, 201 with a null body.
C4_AlwaysAcknowledged ==
    \A r \in Updates : Finished(r) => resp[r] = Created

\* ------------------------------------------------------------------- C5
\* The Complete requests for program p, and the completion writes attempted
\* for p.
CompleteRequests(p) ==
    {r \in Updates : pstate[r] = "Complete" /\ arg[r] = p}
RECURSIVE WritesOf(_)
WritesOf(rs) ==
    IF rs = {} THEN 0
    ELSE LET r == CHOOSE x \in rs : TRUE
         IN Len(writes[r]) + WritesOf(rs \ {r})

\* C5 as stated: when the requests have been handled, the completion writes
\* attempted for a program are as many as its Complete requests.
C5_OneWritePerComplete ==
    (\A r \in Req : Finished(r))
        => \A p \in Programs :
              WritesOf(CompleteRequests(p)) = Cardinality(CompleteRequests(p))

\* ------------------------------------------------------------------- C6
\* The subsequence of bs with the sheet name s, in the order of bs.
OnSheet(bs, s) == LET Same(b) == b.sheet_name = s IN SelectSeq(bs, Same)

\* C6: with the nest resolved, get_batches_for_program returns 200 with
\* exactly the cached batches whose sheet_name is the nest's, duplicates
\* included, in cache order (an empty list when none matches).
C6_JoinCorrectness ==
    \A r \in Req :
        (kind[r] = "get_batches_for_program" /\ nest[r].state = "ok")
            => /\ pc[r] = "done"
               /\ resp[r].kind = "json"
               /\ resp[r].status = "200 OK"
               /\ resp[r].body = OnSheet(batches.val, nest[r].sheet_name)

\* A join over a cache of three batches returned the two on the nest's
\* sheet, and another join in the same run returned none.
C6_Witness ==
    \E r1, r2 \in Req :
        /\ kind[r1] = "get_batches_for_program" /\ nest[r1].state = "ok"
        /\ kind[r2] = "get_batches_for_program" /\ nest[r2].state = "ok"
        /\ Len(batches.val) = 3
        /\ resp[r1].kind = "json" /\ Len(resp[r1].body) = 2
        /\ resp[r2].kind = "json" /\ resp[r2].body = <<>>

\* ------------------------------------------------------------------- C7
\* C7: when Nest::get fails, get_batches_for_program returns that failure
\* and no list of batches.
C7_UnknownProgram ==
    \A r \in Req :
        (kind[r] = "get_batches_for_program" /\ nest[r].state = "err")
            => /\ pc[r] = "done"
               /\ resp[r].kind = "error"
               /\ resp[r].body = nest[r].err

\* A join for a program that is not in the database failed with NotFound
\* while the cache held batches.
C7_Witness ==
    \E r \in Req :
        /\ kind[r] = "get_batches_for_program"
        /\ nest[r].state = "err" /\ nest[r].err = "NotFound"
        /\ batches.some /\ Len(batches.val) = 3
        /\ resp[r].kind = "error"

\* ------------------------------------------------------------------- C8
\* C8: a failed fetch fails its request with the source error, leaves the
\* cache empty and the lock free; and while the cache is empty no reader
\* gets past the lock without fetching for itself.
C8_FailedPopulation ==
    /\ [][\A r \in Req :
            (fetch[r] = "inflight" /\ fetch'[r] = "err")
                => /\ pc'[r] = "done"
                   /\ resp'[r].kind = "error"
                   /\ resp'[r].body = "SourceUnavailable"
                   /\ ~batches'.some
                   /\ locked' = {}]_vars
    /\ [](\A r \in CacheReaders :
            (~batches.some /\ pc[r] # "lock") => fetch[r] # "no")

\* A fetch failed, and a later request found the cache empty and fetched
\* again, successfully.
C8_Witness ==
    \E r1, r2 \in Req :
        /\ r1 < r2
        /\ fetch[r1] = "err" /\ resp[r1].kind = "error"
        /\ fetch[r2] = "ok" /\ batches.some

\* ------------------------------------------------------------------- C9
\* C9 as stated: no handler holds the cache lock while it waits for a pool
\* connection or awaits a database query.
C9_NoLockAcrossDatabase ==
    \A r \in Req : pc[r] \in {"get_owned", "query"} => r \notin locked

\* C9 amended: the lock is held exactly from lock() to the handler's return;
\* get_batches holds it across the check, the load and the read only, while
\* get_batches_for_program also holds it while it waits for a connection and
\* awaits the nest query; no other handler ever holds it.
C9_LockScope ==
    /\ \A r \in Req : r \in locked <=> InCriticalSection(r)
    /\ \A r \in Req :
          (kind[r] = "get_batches_for_program"
             /\ pc[r] \in {"get_owned", "query"}) => r \in locked
    /\ \A r \in Req : Finished(r) => r \notin locked

\* A join holds the lock and a connection, awaiting its nest query, while
\* a get_batches request waits for the lock.
C9_Witness ==
    \E r1, r2 \in Req :
        /\ kind[r1] = "get_batches_for_program" /\ pc[r1] = "query"
        /\ r1 \in locked /\ r1 \in conns
        /\ kind[r2] = "get_batches" /\ pc[r2] = "lock"

\* ------------------------------------------------------------------ C10
\* The error-level records among the log records ls.
ErrorRecords(ls) == LET IsError(x) == x.level = "ERROR" IN SelectSeq(ls, IsError)

\* The completion write of r was attempted and failed.
WriteFailed(r) == writes[r] # <<>> /\ ~writes[r][1].ok

\* C10 as stated: update_program logs exactly one error-level record when
\* the completion write fails, and none otherwise.
C10_OneErrorRecord ==
    \A r \in Updates :
        Finished(r) =>
            Len(ErrorRecords(logs[r])) = IF WriteFailed(r) THEN 1 ELSE 0

\* C10 amended: update_program logs exactly two error-level records when the
\* completion write fails (the message, then the error), and none otherwise.
C10_TwoErrorRecords ==
    \A r \in Updates :
        Finished(r) =>
            ErrorRecords(logs[r]) =
                IF WriteFailed(r)
                THEN << [level |-> "ERROR",
                         msg |-> "Failed to push program update to SimTrans"],
                        [level |-> "ERROR", msg |-> writes[r][1].err] >>
                ELSE <<>>

\* A Complete request whose write failed has returned, next to one whose
\* write succeeded.
C10_Witness ==
    \E r1, r2 \in Updates :
        /\ pc[r1] = "done" /\ WriteFailed(r1)
        /\ Len(ErrorRecords(logs[r1])) = 2
        /\ pc[r2] = "done" /\ writes[r2] # <<>> /\ writes[r2][1].ok
        /\ ErrorRecords(logs[r2]) = <<>>

\* ------------------------------------------------------------------ C11
\* The update_program requests whose state is not Complete.
NonComplete == {r \in Updates : pstate[r] # "Complete"}

\* C11: an Initiated, Processing or Cancelled request returns from the match
\* in one step that leaves the cache, its lock and the pool as they are; it
\* never holds a connection and never writes; only a Complete request of
\* update_program ever writes.
C11_NonCompleteNoSideEffect ==
    /\ [][\A r \in NonComplete :
            pc'[r] # pc[r]
                => /\ pc[r] = "match" /\ pc'[r] = "done"
                   /\ batches' = batches
                   /\ locked' = locked
                   /\ conns' = conns
                   /\ writes' = writes]_vars
    /\ [](\A r \in NonComplete :
            r \notin conns /\ r \notin locked /\ writes[r] = <<>>)
    /\ [](\A r \in Req :
            writes[r] # <<>>
                => kind[r] = "update_program" /\ pstate[r] = "Complete")

\* A Cancelled request has returned while another handler held the cache
\* lock and a connection, and both are still held.
C11_Witness ==
    \E r1, r2 \in Req :
        /\ r1 \in NonComplete /\ pstate[r1] = "Cancelled" /\ pc[r1] = "done"
        /\ r1 > r2
        /\ r2 \in locked /\ r2 \in conns

\* ------------------------------------------------------------------ C12
\* How far a handler is: each position is one attempt of one operation
\* (taking the lock or dispatching, the fetch, the connection acquisition,
\* the query or write, the reading of its result set), the last one is the
\* end of the handler.
Rank(p) ==
    CASE p \in {"lock", "match", "export"} -> 1
      [] p = "fetching" -> 2
      [] p = "get_owned" -> 3
      [] p = "query" -> 4
      [] p = "result" -> 5
      [] p \in {"done", "panicked"} -> 6

\* The listing query of r has failed.
QueryFailed(r) == ~query[r].ok /\ query[r].err # "none"

\* C12: a handler only moves forward, so it attempts the fetch, the
\* connection acquisition and the query or write at most once; a result,
\* once there, is never replaced; and a failed fetch, nest lookup, listing
\* query or completion write ends the handler at once (the write's failure
\* behind the 201, the others surfaced).
C12_NoRetry ==
    /\ [][\A r \in Req :
            /\ pc'[r] # pc[r] => Rank(pc'[r]) > Rank(pc[r])
            /\ fetch[r] \in {"ok", "err"} => fetch'[r] = fetch[r]
            /\ nest[r].state # "none" => nest'[r] = nest[r]
            /\ writes[r] # <<>> => writes'[r] = writes[r]
            /\ query[r].err # "none" => query'[r].err = query[r].err]_vars
    /\ [](\A r \in Req :
            /\ Len(writes[r]) <= 1
            /\ (fetch[r] = "err" \/ nest[r].state = "err")
                 => (pc[r] = "done" /\ resp[r].kind = "error")
            /\ QueryFailed(r) => (pc[r] = "done" /\ resp[r] = InternalServerError)
            /\ WriteFailed(r) => (pc[r] = "done" /\ resp[r] = Created))

\* One request has ended on a failed fetch and another on a failed
\* completion write, each after a single attempt.
C12_Witness ==
    \E r1, r2 \in Req :
        /\ fetch[r1] = "err" /\ pc[r1] = "done"
        /\ WriteFailed(r2) /\ Len(writes[r2]) = 1 /\ pc[r2] = "done"

\* ------------------------------------------------------------------ C13
\* C13: never more than max_size connections are checked out, only a
\* handler between get_owned() and its return holds one, and a handler gets
\* a connection only in a step that starts with fewer than max_size checked
\* out: with all of them out it stays at get_owned() until one is returned.
C13_BoundedPool ==
    /\ [](Cardinality(conns) <= max_size)
    /\ [](\A r \in Req : r \in conns <=> pc[r] \in {"query", "result"})
    /\ [][\A r \in Req :
            (r \notin conns /\ r \in conns')
                => (pc[r] = "get_owned" /\ Cardinality(conns) < max_size)]_vars
    /\ [][\A r \in Req :
            (pc[r] = "get_owned" /\ Cardinality(conns) = max_size)
                => pc'[r] \in {"get_owned", "panicked"}]_vars

\* All max_size connections are checked out, more requests are in flight
\* than the pool has connections, and two handlers wait at get_owned(), one
\* of them holding the cache lock.
C13_Witness ==
    /\ Cardinality(conns) = max_size
    /\ \E r1, r2 \in Req :
          /\ r1 # r2
          /\ pc[r1] = "get_owned" /\ kind[r1] = "get_batches_for_program"
          /\ pc[r2] = "get_owned" /\ kind[r2] = "get_nest"

\* ------------------------------------------------------------------ C14
\* The Complete requests that follow an earlier request for the same program
\* whose state is s.
CompleteAfter(s) ==
    {r \in Updates : /\ pstate[r] = "Complete"
                     /\ \E q \in Updates :
                           q < r /\ arg[q] = arg[r] /\ pstate[q] = s}

\* The Complete requests with no earlier request for their program.
CompleteFirst ==
    {r \in Updates : /\ pstate[r] = "Complete"
                     /\ ~\E q \in Updates : q < r /\ arg[q] = arg[r]}

\* C14 as stated: two handled requests with the same state value have the
\* same effect whatever came before them, and a handled Complete request that
\* follows a Cancelled or a Complete one for its program, or follows nothing,
\* has issued its completion write and is acknowledged.
C14_Stateless ==
    /\ \A r1, r2 \in Updates :
          (Finished(r1) /\ Finished(r2) /\ pstate[r1] = pstate[r2])
              => (Len(writes[r1]) = Len(writes[r2]) /\ resp[r1] = resp[r2])
    /\ \A r \in CompleteAfter("Cancelled") \cup CompleteAfter("Complete")
                    \cup CompleteFirst :
          Finished(r) => (Len(writes[r]) = 1 /\ resp[r] = Created)

\* ------------------------------------------------------------------ C15
\* The requests served by the two listing handlers.
Listings == {r \in Req : kind[r] \in {"get_machines", "get_programs"}}

\* The query of r succeeded with a row that get_programs cannot decode.
DecodeFailed(r) ==
    /\ kind[r] = "get_programs" /\ query[r].ok
    /\ \E i \in 1 .. Len(query[r].rows) : RowPanics(query[r].rows[i])

\* C15 as stated: a listing handler whose query failed, or whose result
\* could not be decoded, has returned the generic 500; one whose query
\* succeeded with zero rows has returned 200 with an empty sequence.
C15_ListingFailure ==
    \A r \in Listings :
        Finished(r) =>
            /\ (QueryFailed(r) \/ DecodeFailed(r))
                  => resp[r] = InternalServerError
            /\ (query[r].ok /\ query[r].rows = <<>>) => resp[r] = OkList(<<>>)

\* ------------------------------------------------------------------ C16
\* The requests served by get_batches_for_program.
Joins == {r \in Req : kind[r] = "get_batches_for_program"}

\* C16: a get_batches_for_program request asks for a connection, holds one
\* or has a nest answer only with the cache populated; one whose fetch
\* failed has returned the error without a connection and without a nest
\* query; and once a nest lookup has failed the cache is populated and no
\* request starts another fetch.
C16_JoinOrdering ==
    /\ [](\A r \in Joins :
            /\ (pc[r] \in {"get_owned", "query"} \/ r \in conns
                    \/ nest[r].state # "none") => batches.some
            /\ fetch[r] = "err"
                  => /\ r \notin conns /\ nest[r] = NoNest
                     /\ pc[r] = "done" /\ resp[r].kind = "error"
            /\ nest[r].state = "err" => batches.some)
    /\ [][\A r \in Joins :
            /\ (r \notin conns /\ r \in conns') => fetch[r] # "err"
            /\ nest[r].state = "err"
                  => \A q \in DOMAIN fetch' :
                        fetch'[q] = "inflight"
                            => (q \in DOMAIN fetch /\ fetch[q] = "inflight")]_vars

\* A request loaded the cache and then failed its nest lookup; a later one
\* was answered from the cache without a fetch.
C16_Witness ==
    \E r1, r2 \in Joins :
        /\ r1 < r2
        /\ fetch[r1] = "ok" /\ nest[r1].state = "err" /\ pc[r1] = "done"
        /\ resp[r1].kind = "error"
        /\ fetch[r2] = "no" /\ nest[r2].state = "ok" /\ pc[r2] = "done"
        /\ batches.some

\* ------------------------------------------------------------------ C17
\* r waits at lock().await for a guard another handler holds, or at
\* get_owned().await for a connection with all of them checked out.
WaitsForLock(r) == pc[r] = "lock" /\ ~CanLock(locked)
WaitsForConnection(r) == pc[r] = "get_owned" /\ ~CanCheckOut(conns)
Blocked(r) == WaitsForLock(r) \/ WaitsForConnection(r)

\* The handlers that have neither returned nor panicked.
Unfinished == {r \in Req : ~Finished(r)}

\* C17: while a handler is unfinished, some unfinished handler waits neither
\* for the cache lock nor for a connection; a handler at lock().await holds
\* no connection, and a handler takes the lock only without a connection.
C17_DeadlockFreedom ==
    /\ [](Unfinished # {} => \E r \in Unfinished : ~Blocked(r))
    /\ [](\A r \in Req : pc[r] = "lock" => r \notin conns)
    /\ [][\A r \in Req : (r \notin locked /\ r \in locked') => r \notin conns']_vars

\* The pool is exhausted; one handler holds the cache lock and waits for a
\* connection, another waits for the lock.
C17_Witness ==
    /\ Cardinality(conns) = max_size
    /\ \E r1, r2 \in Req :
          /\ r1 \in locked /\ WaitsForConnection(r1)
          /\ WaitsForLock(r2)

\* ------------------------------------------------------------------ C18
\* Fair scheduling of the exhausted-pool workload: a step that stays
\* possible is eventually taken, so every fetch and every operation on an
\* acquired connection terminates.
FairSpecPool == SpecPool /\ WF_vars(NextPool)

\* C18 as stated: under fair scheduling every handler that starts
\* eventually returns a response, also with more requests in flight than
\* the pool has connections.
C18_EventuallyResponds ==
    \A r \in 1 .. (max_size + PoolExtra) :
        (r \in Req) ~> (r \in Req /\ resp[r].kind # "none")

\* ------------------------------------------------------------------ C19
\* C19: a handler that has finished holds neither the cache lock nor a
\* connection, and with no request in flight the lock is free and the pool
\* is full.
C19_ResourceRelease ==
    /\ \A r \in Req : Finished(r) => (r \notin locked /\ r \notin conns)
    /\ Unfinished = {} => (locked = {} /\ conns = {})

\* No request is in flight; one ended on a failed nest lookup, having held
\* the lock and a connection, the other on a failed completion write.
C19_Witness ==
    /\ Unfinished = {}
    /\ \E r1, r2 \in Req :
          /\ kind[r1] = "get_batches_for_program" /\ nest[r1].state = "err"
          /\ resp[r1].kind = "error"
          /\ WriteFailed(r2) /\ resp[r2] = Created

\* ------------------------------------------------------------------ C20
\* The requests served by get_machines, get_programs, get_nest, get_feedback
\* and update_program.
NonBatch == Req \ CacheReaders

\* A step of the handler of r other than a panic.
StepOf(r) == Next /\ Len(pc') = Len(pc) /\ pc'[r] \notin {pc[r], "panicked"}

\* C20: a non-batch handler never waits for or holds the cache lock and
\* never fetches or reads the cache; its arrival and its steps leave the
\* cache and the lock as they are; and while it is unfinished it can take a
\* step whenever a connection is available, whoever holds the lock.
C20_CacheIsolation ==
    /\ [](\A r \in NonBatch :
            /\ r \notin locked /\ pc[r] \notin {"lock", "fetching"}
            /\ fetch[r] = "no" /\ ~seen[r].some
            /\ (~Finished(r) /\ Cardinality(conns) < max_size)
                  => ENABLED StepOf(r))
    /\ [][/\ \A r \in NonBatch :
               pc'[r] # pc[r] => (batches' = batches /\ locked' = locked)
          /\ (Len(pc') > Len(pc) /\ kind'[Len(pc')] \notin
                  {"get_batches", "get_batches_for_program"})
               => (batches' = batches /\ locked' = locked)]_vars

\* While a handler holds the cache lock during a population in progress, a
\* get_nest request that arrived after it has got its connection, run its
\* query and returned.
C20_Witness ==
    \E r1, r2 \in Req :
        /\ r1 < r2
        /\ r1 \in locked /\ pc[r1] = "fetching" /\ ~batches.some
        /\ kind[r2] = "get_nest" /\ pc[r2] = "done" /\ resp[r2].kind # "none"

====
